---- MODULE Spec2Model ----
(***************************************************************************)
(* Model of the chat application in chat.py: the SQLite backend (tables     *)
(* users, messages, groups, group_members in DB_FILE), the JSON backend     *)
(* (one document in DATA_FILE, rewritten whole by save_data), and the       *)
(* Streamlit session layer that calls them.                                 *)
(*                                                                          *)
(* A table is a set of rows, each with its AUTOINCREMENT id.  A Python dict *)
(* is a sequence of entries in insertion order, a Python list a sequence.   *)
(* The created_at columns are written and never read; they are left out.    *)
(***************************************************************************)
EXTENDS Integers, Sequences, FiniteSets, TLC

\* ------------------------------------------------------------------ bounds
MaxMsgs == 3
MaxMemberRows == 3
MaxStreak == 2
MaxConcOps == 3

\* ------------------------------------------------------- input alphabets
Names == {"amy", "Zed", "bob"}
Passwords == {"pw1", "pw2"}
GroupNames == {"g", "amy"}
Times == {1, 2}
Texts == {"hi"}
Senders == {"amy", "bob"}
Receivers == {"amy", "bob", "g"}
Members == {"amy", "bob"}
UiNames == {"amy", "bob"}
UiPasswords == {"pw1", "pw2"}
Sessions == {"s1", "s2"}
Backends == {"SQLite", "JSON"}
None == "None"

\* ------------------------------------------------------------ helpers
Range(s) == {s[i] : i \in 1..Len(s)}

MaxOf(S) == CHOOSE m \in S : \A x \in S : x <= m

\* INTEGER PRIMARY KEY AUTOINCREMENT: one more than the largest id used.
\* Rows are never deleted, so that is the largest id in the table.
NextId(table) == IF table = {} THEN 1 ELSE MaxOf({r.id : r \in table}) + 1

\* All the orders in which a SELECT without ORDER BY may return a set of rows.
RECURSIVE Orderings(_)
Orderings(S) ==
    IF S = {} THEN {<<>>}
    ELSE UNION {{<<x>> \o t : t \in Orderings(S \ {x})} : x \in S}

\* The rows of a table in ORDER BY id ASC.
RECURSIVE OrderById(_)
OrderById(S) ==
    IF S = {} THEN <<>>
    ELSE LET r == CHOOSE x \in S : \A y \in S : x.id <= y.id
         IN <<r>> \o OrderById(S \ {r})

\* Index of the entry of a dict (a sequence of entries keyed by field k), 0 if absent.
KeyIndex(entries, key) ==
    IF \E i \in 1..Len(entries) : entries[i].key = key
    THEN CHOOSE i \in 1..Len(entries) : entries[i].key = key
    ELSE 0

\* ---------------------------------------------------------------- stores
EmptyDb == [users |-> {}, messages |-> {}, groups |-> {}, group_members |-> {}]

EmptyData == [users |-> <<>>, messages |-> <<>>, groups |-> <<>>]

\* sha256(password).hexdigest(): a digest per password, distinct passwords
\* having distinct digests.
hash_password(password) ==
    CASE password = "pw1" -> "0b14d501"
      [] password = "pw2" -> "6cf615d5"
      [] OTHER -> "e3b0c442"

\* ------------------------------------------------------- auth, SQLite
signup_sql(db, username, password) ==
    IF \E r \in db.users : r.username = username
    THEN [ret |-> FALSE, db |-> db]
    ELSE [ret |-> TRUE,
          db |-> [db EXCEPT !.users = @ \cup
                    {[id |-> NextId(@), username |-> username,
                      password_hash |-> hash_password(password), online |-> 0]}]]

\* login_sql with the password_hash=? condition dropped from the SELECT.
login_sql_any_password(db, username, password) ==
    IF \E r \in db.users : r.username = username
    THEN [ret |-> TRUE,
          db |-> [db EXCEPT !.users =
                    {IF r.username = username THEN [r EXCEPT !.online = 1] ELSE r
                       : r \in @}]]
    ELSE [ret |-> FALSE, db |-> db]

login_sql(db, username, password) ==
    IF \E r \in db.users : r.username = username
                           /\ r.password_hash = hash_password(password)
    THEN [ret |-> TRUE,
          db |-> [db EXCEPT !.users =
                    {IF r.username = username THEN [r EXCEPT !.online = 1] ELSE r
                       : r \in @}]]
    ELSE [ret |-> FALSE, db |-> db]

logout_sql(db, username) ==
    [ret |-> None,
     db |-> [db EXCEPT !.users =
               {IF r.username = username THEN [r EXCEPT !.online = 0] ELSE r
                  : r \in @}]]

\* SELECT username FROM users WHERE online=1 has no ORDER BY: every order
\* of the selected rows is a possible result.
get_online_users_sql(db) ==
    {[i \in 1..Len(o) |-> o[i].username]
       : o \in Orderings({r \in db.users : r.online = 1})}

\* --------------------------------------------------------- auth, JSON
\* Each JSON function yields its return value, the document it holds when
\* it returns, and whether it called save_data.
\* signup_json without the "username in data['users']" test.
signup_json_overwrite(data, username, password) ==
    LET i == KeyIndex(data.users, username)
        e == [key |-> username, password_hash |-> hash_password(password),
              online |-> 0]
    IN [ret |-> TRUE,
        data |-> IF i # 0 THEN [data EXCEPT !.users[i] = e]
                 ELSE [data EXCEPT !.users = Append(@, e)],
        saved |-> TRUE]

signup_json(data, username, password) ==
    IF KeyIndex(data.users, username) # 0
    THEN [ret |-> FALSE, data |-> data, saved |-> FALSE]
    ELSE [ret |-> TRUE,
          data |-> [data EXCEPT !.users = Append(@,
                      [key |-> username,
                       password_hash |-> hash_password(password), online |-> 0])],
          saved |-> TRUE]

login_json(data, username, password) ==
    LET i == KeyIndex(data.users, username)
    IN IF i # 0 /\ data.users[i].password_hash = hash_password(password)
       THEN [ret |-> TRUE,
             data |-> [data EXCEPT !.users[i].online = 1],
             saved |-> TRUE]
       ELSE [ret |-> FALSE, data |-> data, saved |-> FALSE]

\* logout_json that changes the loaded document and never saves it.
logout_json_unsaved(data, username) ==
    [ret |-> None, data |-> data, saved |-> FALSE]

logout_json(data, username) ==
    LET i == KeyIndex(data.users, username)
    IN IF i # 0
       THEN [ret |-> None, data |-> [data EXCEPT !.users[i].online = 0],
             saved |-> TRUE]
       ELSE [ret |-> None, data |-> data, saved |-> FALSE]

get_online_users_json(data) ==
    LET on == SelectSeq(data.users, LAMBDA e : e.online = 1)
    IN [i \in 1..Len(on) |-> on[i].key]

\* The sidebar loop and the chat_with selectbox: the online users other
\* than the session's own user, in the order the backend returned them.
online_listing(online_users, user) ==
    SelectSeq(online_users, LAMBDA u : u # user)

\* ------------------------------------------------------- chat, SQLite
\* time is the reading of datetime.datetime.now() the call makes.
send_message_sql(db, sender, receiver, msg, time, is_group) ==
    [ret |-> None,
     db |-> [db EXCEPT !.messages = @ \cup
               {[id |-> NextId(@), sender |-> sender, receiver |-> receiver,
                 msg |-> msg, time |-> time, is_group |-> is_group]}]]

\* get_conversation_sql with is_group=0 dropped from the direct query.
get_conversation_sql_unpartitioned(db, a, b, is_group) ==
    IF is_group # 0
    THEN LET rows == OrderById({m \in db.messages :
                                  m.is_group = 1 /\ m.receiver = b})
         IN [i \in 1..Len(rows) |-> <<rows[i].sender, rows[i].msg, rows[i].time>>]
    ELSE LET rows == OrderById({m \in db.messages :
                                  \/ (m.sender = a /\ m.receiver = b)
                                  \/ (m.sender = b /\ m.receiver = a)})
         IN [i \in 1..Len(rows) |->
               <<rows[i].sender, rows[i].receiver, rows[i].msg, rows[i].time>>]

get_conversation_sql(db, a, b, is_group) ==
    IF is_group # 0
    THEN LET rows == OrderById({m \in db.messages :
                                  m.is_group = 1 /\ m.receiver = b})
         IN [i \in 1..Len(rows) |-> <<rows[i].sender, rows[i].msg, rows[i].time>>]
    ELSE LET rows == OrderById({m \in db.messages :
                                  /\ m.is_group = 0
                                  /\ \/ (m.sender = a /\ m.receiver = b)
                                     \/ (m.sender = b /\ m.receiver = a)})
         IN [i \in 1..Len(rows) |->
               <<rows[i].sender, rows[i].receiver, rows[i].msg, rows[i].time>>]

\* --------------------------------------------------------- chat, JSON
send_message_json(data, sender, receiver, msg, time, is_group) ==
    [ret |-> None,
     data |-> [data EXCEPT !.messages = Append(@,
                 [sender |-> sender, receiver |-> receiver, msg |-> msg,
                  time |-> time, is_group |-> is_group])],
     saved |-> TRUE]

get_conversation_json(data, a, b, is_group) ==
    IF is_group # 0
    THEN LET ms == SelectSeq(data.messages,
                     LAMBDA m : m.is_group = 1 /\ m.receiver = b)
         IN [i \in 1..Len(ms) |-> <<ms[i].sender, ms[i].msg, ms[i].time>>]
    ELSE LET ms == SelectSeq(data.messages,
                     LAMBDA m : /\ m.is_group = 0
                                /\ \/ (m.sender = a /\ m.receiver = b)
                                   \/ (m.sender = b /\ m.receiver = a))
         IN [i \in 1..Len(ms) |->
               <<ms[i].sender, ms[i].receiver, ms[i].msg, ms[i].time>>]

\* ------------------------------------------------------ groups, SQLite
create_group_sql(db, group_name, created_by) ==
    IF \E g \in db.groups : g.group_name = group_name
    THEN [ret |-> FALSE, db |-> db]
    ELSE [ret |-> TRUE,
          db |-> [db EXCEPT !.groups = @ \cup
                    {[id |-> NextId(@), group_name |-> group_name,
                      created_by |-> created_by]}]]

add_member_sql(db, group_name, username) ==
    IF \E g \in db.groups : g.group_name = group_name
    THEN LET group_id == (CHOOSE g \in db.groups : g.group_name = group_name).id
         IN [ret |-> TRUE,
             db |-> [db EXCEPT !.group_members = @ \cup
                       {[id |-> NextId(@), group_id |-> group_id,
                         username |-> username]}]]
    ELSE [ret |-> FALSE, db |-> db]

\* groups JOIN group_members without ORDER BY: one result row per matching
\* pair of rows, in any order.
get_user_groups_sql(db, username) ==
    LET joined == {[g |-> g, gm |-> gm] : g \in db.groups, gm \in db.group_members}
        rows == {r \in joined : r.g.id = r.gm.group_id /\ r.gm.username = username}
    IN {[i \in 1..Len(o) |-> o[i].g.group_name] : o \in Orderings(rows)}

\* -------------------------------------------------------- groups, JSON
create_group_json(data, group_name, created_by) ==
    IF KeyIndex(data.groups, group_name) # 0
    THEN [ret |-> FALSE, data |-> data, saved |-> FALSE]
    ELSE [ret |-> TRUE,
          data |-> [data EXCEPT !.groups = Append(@,
                      [key |-> group_name, created_by |-> created_by,
                       members |-> <<created_by>>])],
          saved |-> TRUE]

add_member_json(data, group_name, username) ==
    LET i == KeyIndex(data.groups, group_name)
    IN IF i # 0 /\ username \notin Range(data.groups[i].members)
       THEN [ret |-> TRUE,
             data |-> [data EXCEPT !.groups[i].members = Append(@, username)],
             saved |-> TRUE]
       ELSE [ret |-> FALSE, data |-> data, saved |-> FALSE]

get_user_groups_json(data, username) ==
    LET gs == SelectSeq(data.groups, LAMBDA e : username \in Range(e.members))
    IN [i \in 1..Len(gs) |-> gs[i].key]

\* json.load of what json.dump wrote: strings, integers, lists and dicts
\* with string keys come back unchanged.  A missing DATA_FILE is first
\* created holding the empty document, so it reads as EmptyData.
load_data(file) == file

\* ================================================================ state
VARIABLES
    db_file,      \* contents of DB_FILE: the four tables
    data_file,    \* contents of DATA_FILE: the JSON document
    session,      \* st.session_state of each browser session: user, backend
    pending,      \* per session: the JSON call between its load_data and its return
    last,         \* the last call made and what it returned
    registered,   \* history: per backend and username, the password of the successful signup
    streak,       \* history: per backend and username, successful logins since the last logout
    sent_log,     \* history: every send_message call, in call order
    done          \* history: calls completed by concurrent sessions

vars == <<db_file, data_file, session, pending, last, registered, streak,
          sent_log, done>>

NoCall == [op |-> "none", username |-> None, password |-> None,
           group_name |-> None, ret_sql |-> None, ret_json |-> None,
           streak |-> 0, backend |-> None]

Idle == [op |-> "idle"]

NoneDone == [sends_sql |-> 0, sends_json |-> 0, signups |-> {}, groups |-> {},
             logged_in |-> {}, calls |-> 0]

Init ==
    /\ db_file = EmptyDb
    /\ data_file = EmptyData
    /\ session = [s \in Sessions |-> [user |-> None, backend |-> "SQLite",
                                      login_backend |-> None]]
    /\ pending = [s \in Sessions |-> Idle]
    /\ last = NoCall
    /\ registered = [b \in Backends |-> [u \in Names |-> None]]
    /\ streak = [b \in Backends |-> [u \in Names |-> 0]]
    /\ sent_log = <<>>
    /\ done = NoneDone

\* What DATA_FILE holds after a JSON function that ran alone.
AfterJson(r) == IF r.saved THEN r.data ELSE data_file

Bump(n) == IF n < MaxStreak THEN n + 1 ELSE n

\* ------------------------------------------------ credential store calls
\* Every call is made on both backends, so that each backend sees every
\* sequence of calls and the two can be compared call by call.
Signup(username, password) ==
    LET rs == signup_sql(db_file, username, password)
        rj == signup_json(load_data(data_file), username, password)
    IN /\ db_file' = rs.db
       /\ data_file' = AfterJson(rj)
       /\ last' = [NoCall EXCEPT !.op = "signup", !.username = username,
                     !.password = password, !.ret_sql = rs.ret, !.ret_json = rj.ret]
       /\ registered' = [registered EXCEPT
             !["SQLite"][username] = IF rs.ret THEN password ELSE @,
             !["JSON"][username] = IF rj.ret THEN password ELSE @]
       /\ UNCHANGED <<session, pending, streak, sent_log, done>>

Login(username, password) ==
    LET rs == login_sql(db_file, username, password)
        rj == login_json(load_data(data_file), username, password)
    IN /\ db_file' = rs.db
       /\ data_file' = AfterJson(rj)
       /\ last' = [NoCall EXCEPT !.op = "login", !.username = username,
                     !.password = password, !.ret_sql = rs.ret, !.ret_json = rj.ret,
                     !.streak = streak["JSON"][username]]
       /\ streak' = [streak EXCEPT
             !["SQLite"][username] = IF rs.ret THEN Bump(@) ELSE @,
             !["JSON"][username] = IF rj.ret THEN Bump(@) ELSE @]
       /\ UNCHANGED <<session, pending, registered, sent_log, done>>

Logout(username) ==
    LET rs == logout_sql(db_file, username)
        rj == logout_json(load_data(data_file), username)
    IN /\ db_file' = rs.db
       /\ data_file' = AfterJson(rj)
       /\ last' = [NoCall EXCEPT !.op = "logout", !.username = username,
                     !.ret_sql = rs.ret, !.ret_json = rj.ret,
                     !.streak = streak["JSON"][username]]
       /\ streak' = [streak EXCEPT !["SQLite"][username] = 0,
                                   !["JSON"][username] = 0]
       /\ UNCHANGED <<session, pending, registered, sent_log, done>>

NextAuth ==
    \/ \E u \in Names, p \in Passwords : Signup(u, p)
    \/ \E u \in Names, p \in Passwords : Login(u, p)
    \/ \E u \in Names : Logout(u)

SpecAuth == Init /\ [][NextAuth]_vars

\* ---------------------------------------------------- message store calls
SendMessage(sender, receiver, msg, time, is_group) ==
    LET rs == send_message_sql(db_file, sender, receiver, msg, time, is_group)
        rj == send_message_json(load_data(data_file), sender, receiver, msg,
                                time, is_group)
    IN /\ Len(sent_log) < MaxMsgs
       /\ db_file' = rs.db
       /\ data_file' = AfterJson(rj)
       /\ sent_log' = Append(sent_log,
             [sender |-> sender, receiver |-> receiver, msg |-> msg,
              time |-> time, is_group |-> is_group])
       /\ last' = [NoCall EXCEPT !.op = "send_message", !.username = sender,
                     !.ret_sql = rs.ret, !.ret_json = rj.ret]
       /\ UNCHANGED <<session, pending, registered, streak, done>>

NextMsg ==
    \E sender \in Senders, receiver \in Receivers, msg \in Texts,
       time \in Times, is_group \in {0, 1} :
      SendMessage(sender, receiver, msg, time, is_group)

SpecMsg == Init /\ [][NextMsg]_vars

\* ----------------------------------------------------- group registry calls
CreateGroup(group_name, created_by) ==
    LET rs == create_group_sql(db_file, group_name, created_by)
        rj == create_group_json(load_data(data_file), group_name, created_by)
    IN /\ db_file' = rs.db
       /\ data_file' = AfterJson(rj)
       /\ last' = [NoCall EXCEPT !.op = "create_group", !.group_name = group_name,
                     !.username = created_by, !.ret_sql = rs.ret, !.ret_json = rj.ret]
       /\ UNCHANGED <<session, pending, registered, streak, sent_log, done>>

AddMember(group_name, username) ==
    LET rs == add_member_sql(db_file, group_name, username)
        rj == add_member_json(load_data(data_file), group_name, username)
    IN /\ Cardinality(db_file.group_members) < MaxMemberRows
       /\ db_file' = rs.db
       /\ data_file' = AfterJson(rj)
       /\ last' = [NoCall EXCEPT !.op = "add_member", !.group_name = group_name,
                     !.username = username, !.ret_sql = rs.ret, !.ret_json = rj.ret]
       /\ UNCHANGED <<session, pending, registered, streak, sent_log, done>>

\* The Create Group button: create_group and, when it returned True,
\* add_member of the creator; "created" is what the page reports.
CreateGroupButton(group_name, user) ==
    LET cs == create_group_sql(db_file, group_name, user)
        cj == create_group_json(load_data(data_file), group_name, user)
        as == add_member_sql(cs.db, group_name, user)
        aj == add_member_json(load_data(cj.data), group_name, user)
    IN /\ Cardinality(db_file.group_members) < MaxMemberRows
       /\ db_file' = IF cs.ret THEN as.db ELSE cs.db
       /\ data_file' = IF cj.ret THEN (IF aj.saved THEN aj.data ELSE cj.data)
                       ELSE AfterJson(cj)
       /\ last' = [NoCall EXCEPT !.op = "create_group_button",
                     !.group_name = group_name, !.username = user,
                     !.ret_sql = cs.ret, !.ret_json = cj.ret]
       /\ UNCHANGED <<session, pending, registered, streak, sent_log, done>>

NextGroup ==
    \/ \E g \in GroupNames, c \in Members : CreateGroup(g, c)
    \/ \E g \in GroupNames, u \in Members : AddMember(g, u)
    \/ \E g \in GroupNames, u \in Members : CreateGroupButton(g, u)

SpecGroup == Init /\ [][NextGroup]_vars

\* ------------------------------------------------------- session layer
\* The script reruns top to bottom on every interaction of a session; the
\* rerun itself only reads.  backend is the value of the sidebar radio.
\* login_backend is history: the backend in which the session's login
\* succeeded.
SelectBackend(s, b) ==
    /\ session[s].backend # b
    /\ session' = [session EXCEPT ![s].backend = b]
    /\ last' = [NoCall EXCEPT !.op = "select_backend", !.backend = b]
    /\ UNCHANGED <<db_file, data_file, pending, registered, streak, sent_log, done>>

SignUpButton(s, username, password) ==
    /\ session[s].user = None
    /\ IF session[s].backend = "SQLite"
       THEN LET r == signup_sql(db_file, username, password)
            IN /\ db_file' = r.db
               /\ data_file' = data_file
               /\ last' = [NoCall EXCEPT !.op = "signup_button",
                             !.username = username, !.password = password,
                             !.ret_sql = r.ret, !.backend = "SQLite"]
       ELSE LET r == signup_json(load_data(data_file), username, password)
            IN /\ data_file' = AfterJson(r)
               /\ db_file' = db_file
               /\ last' = [NoCall EXCEPT !.op = "signup_button",
                             !.username = username, !.password = password,
                             !.ret_json = r.ret, !.backend = "JSON"]
    /\ UNCHANGED <<session, pending, registered, streak, sent_log, done>>

LoginButton(s, username, password) ==
    /\ session[s].user = None
    /\ LET b == session[s].backend
           success == IF b = "SQLite"
                      THEN login_sql(db_file, username, password).ret
                      ELSE login_json(load_data(data_file), username, password).ret
       IN /\ db_file' = IF b = "SQLite"
                        THEN login_sql(db_file, username, password).db
                        ELSE db_file
          /\ data_file' = IF b = "SQLite" THEN data_file
                          ELSE AfterJson(login_json(load_data(data_file),
                                                    username, password))
          /\ session' = IF success
                        THEN [session EXCEPT ![s].user = username,
                                             ![s].login_backend = b]
                        ELSE session
          /\ last' = [NoCall EXCEPT !.op = "login_button", !.username = username,
                        !.password = password, !.backend = b,
                        !.ret_sql = IF b = "SQLite" THEN success ELSE None,
                        !.ret_json = IF b = "JSON" THEN success ELSE None]
    /\ UNCHANGED <<pending, registered, streak, sent_log, done>>

LogoutButton(s) ==
    /\ session[s].user # None
    /\ IF session[s].backend = "SQLite"
       THEN /\ db_file' = logout_sql(db_file, session[s].user).db
            /\ data_file' = data_file
       ELSE /\ data_file' = AfterJson(logout_json(load_data(data_file),
                                                  session[s].user))
            /\ db_file' = db_file
    /\ session' = [session EXCEPT ![s].user = None, ![s].login_backend = None]
    /\ last' = [NoCall EXCEPT !.op = "logout_button",
                  !.username = session[s].user,
                  !.backend = session[s].login_backend]
    /\ UNCHANGED <<pending, registered, streak, sent_log, done>>

Next ==
    \/ \E s \in Sessions, b \in Backends : SelectBackend(s, b)
    \/ \E s \in Sessions, u \in UiNames, p \in UiPasswords : SignUpButton(s, u, p)
    \/ \E s \in Sessions, u \in UiNames, p \in UiPasswords : LoginButton(s, u, p)
    \/ \E s \in Sessions : LogoutButton(s)

Spec == Init /\ [][Next]_vars

\* ------------------------------------------------- concurrent sessions
\* Each session runs its script in a thread of its own.  A JSON function
\* is two steps, load_data and (when it saves) save_data, and steps of
\* different sessions interleave.  A SQLite function is one transaction.
ConcCalls ==
    {[op |-> "signup", username |-> u, password |-> "pw1"] : u \in {"amy", "bob"}}
    \cup {[op |-> "login", username |-> "amy", password |-> "pw1"],
          [op |-> "logout", username |-> "amy"],
          [op |-> "send_message", sender |-> "amy", receiver |-> "bob",
           msg |-> "hi", time |-> 1, is_group |-> 0],
          [op |-> "create_group", group_name |-> "g", created_by |-> "amy"]}

ApplyJson(call, data) ==
    CASE call.op = "signup" -> signup_json(data, call.username, call.password)
      [] call.op = "login" -> login_json(data, call.username, call.password)
      [] call.op = "logout" -> logout_json(data, call.username)
      [] call.op = "send_message" ->
           send_message_json(data, call.sender, call.receiver, call.msg,
                             call.time, call.is_group)
      [] call.op = "create_group" ->
           create_group_json(data, call.group_name, call.created_by)

\* The calls a completed call adds to the record of completed calls.
Completed(call, r) ==
    [done EXCEPT
       !.sends_json = IF call.op = "send_message" THEN @ + 1 ELSE @,
       !.signups = IF call.op = "signup" /\ r.ret THEN @ \cup {call.username} ELSE @,
       !.groups = IF call.op = "create_group" /\ r.ret
                  THEN @ \cup {call.group_name} ELSE @,
       !.logged_in = IF call.op = "login" /\ r.ret THEN @ \cup {call.username}
                     ELSE IF call.op = "logout" THEN @ \ {call.username}
                     ELSE @]

\* The function's load_data().
JsonLoad(s, call) ==
    /\ pending[s] = Idle
    /\ done.calls < MaxConcOps
    /\ pending' = [pending EXCEPT ![s] =
                     [op |-> "loaded", call |-> call, data |-> load_data(data_file)]]
    /\ done' = [done EXCEPT !.calls = @ + 1]
    /\ UNCHANGED <<db_file, data_file, session, last, registered, streak, sent_log>>

\* The rest of the function: its change to the loaded document, its
\* save_data() when it makes one, and its return.
JsonReturn(s) ==
    /\ pending[s] # Idle
    /\ LET call == pending[s].call
           r == ApplyJson(call, pending[s].data)
       IN /\ data_file' = AfterJson(r)
          /\ done' = Completed(call, r)
    /\ pending' = [pending EXCEPT ![s] = Idle]
    /\ UNCHANGED <<db_file, session, last, registered, streak, sent_log>>

SqlSendMessage(s, sender, receiver, msg, time) ==
    /\ pending[s] = Idle
    /\ done.calls < MaxConcOps
    /\ db_file' = send_message_sql(db_file, sender, receiver, msg, time, 0).db
    /\ done' = [done EXCEPT !.calls = @ + 1, !.sends_sql = @ + 1]
    /\ UNCHANGED <<data_file, session, pending, last, registered, streak, sent_log>>

NextConc ==
    \/ \E s \in Sessions, call \in ConcCalls : JsonLoad(s, call)
    \/ \E s \in Sessions : JsonReturn(s)
    \/ \E s \in Sessions : SqlSendMessage(s, "amy", "bob", "hi", 1)

SpecConc == Init /\ [][NextConc]_vars

\* ============================================================== claims
usernames_sql(db) == {r.username : r \in db.users}

usernames_json(data) == {data.users[i].key : i \in 1..Len(data.users)}

online_sql(db) == {r.username : r \in {x \in db.users : x.online = 1}}

online_json(data) ==
    {data.users[i].key : i \in {j \in 1..Len(data.users) : data.users[j].online = 1}}

\* C1 - a signup for a username that is already registered returns False
\* and changes nothing; the store holds exactly one user with that name,
\* still with the hash of the first registration's password, so that a
\* login succeeds with that password and with no other.
C1_FirstRegistrationKept ==
    \A u \in Names :
      /\ registered["SQLite"][u] # None =>
           /\ Cardinality({r \in db_file.users : r.username = u}) = 1
           /\ \A r \in db_file.users : r.username = u =>
                r.password_hash = hash_password(registered["SQLite"][u])
           /\ \A p \in Passwords :
                login_sql(db_file, u, p).ret <=> p = registered["SQLite"][u]
      /\ registered["JSON"][u] # None =>
           /\ Cardinality({i \in 1..Len(data_file.users) :
                             data_file.users[i].key = u}) = 1
           /\ \A i \in 1..Len(data_file.users) : data_file.users[i].key = u =>
                data_file.users[i].password_hash = hash_password(registered["JSON"][u])
           /\ \A p \in Passwords :
                login_json(load_data(data_file), u, p).ret <=> p = registered["JSON"][u]

C1_DuplicateSignupStep ==
    last'.op = "signup" =>
      /\ registered["SQLite"][last'.username] # None =>
           last'.ret_sql = FALSE /\ db_file' = db_file
      /\ registered["JSON"][last'.username] # None =>
           last'.ret_json = FALSE /\ data_file' = data_file

C1_DuplicateSignup ==
    []C1_FirstRegistrationKept /\ [][C1_DuplicateSignupStep]_vars

C1_Witness ==
    /\ last.op = "signup"
    /\ last.ret_sql = FALSE /\ last.ret_json = FALSE
    /\ registered["SQLite"][last.username] \notin {None, last.password}
    /\ registered["JSON"][last.username] \notin {None, last.password}

\* C2 - login(u, p) returns True exactly when a signup(u, p0) succeeded
\* before in that backend and p has the hash of p0; a login that returns
\* False leaves every user's online flag as it was.
C2_LoginResult ==
    last.op = "login" =>
      /\ last.ret_sql <=>
           /\ registered["SQLite"][last.username] # None
           /\ hash_password(last.password) =
                hash_password(registered["SQLite"][last.username])
      /\ last.ret_json <=>
           /\ registered["JSON"][last.username] # None
           /\ hash_password(last.password) =
                hash_password(registered["JSON"][last.username])

C2_FailedLoginStep ==
    last'.op = "login" =>
      /\ ~last'.ret_sql => online_sql(db_file') = online_sql(db_file)
      /\ ~last'.ret_json => online_json(data_file') = online_json(data_file)

C2_LoginIffRegistered ==
    []C2_LoginResult /\ [][C2_FailedLoginStep]_vars

C2_Witness ==
    /\ last.op = "login"
    /\ ~last.ret_sql /\ ~last.ret_json
    /\ registered["SQLite"][last.username] \notin {None, last.password}
    /\ online_sql(db_file) # {} /\ online_json(data_file) # {}

\* C6 - after a successful login(u) the listing shown to any other user
\* includes u, after logout(u) no listing includes u, however many logins
\* came before, and a logout of an unknown username changes nothing.
C6_ListingAfterCall ==
    /\ (last.op = "login" /\ last.ret_sql) =>
         \A v \in Names \ {last.username} :
           \A online_users \in get_online_users_sql(db_file) :
             last.username \in Range(online_listing(online_users, v))
    /\ (last.op = "login" /\ last.ret_json) =>
         \A v \in Names \ {last.username} :
           last.username \in
             Range(online_listing(get_online_users_json(load_data(data_file)), v))
    /\ last.op = "logout" =>
         \A v \in Names :
           /\ \A online_users \in get_online_users_sql(db_file) :
                last.username \notin Range(online_listing(online_users, v))
           /\ last.username \notin
                Range(online_listing(get_online_users_json(load_data(data_file)), v))

C6_UnknownLogoutStep ==
    last'.op = "logout" =>
      /\ last'.username \notin usernames_sql(db_file) => db_file' = db_file
      /\ last'.username \notin usernames_json(data_file) => data_file' = data_file

C6_PresenceFollowsLastCall ==
    []C6_ListingAfterCall /\ [][C6_UnknownLogoutStep]_vars

C6_Witness ==
    /\ last.op = "logout"
    /\ last.streak >= 2
    /\ last.username \in usernames_sql(db_file)
    /\ last.username \in usernames_json(data_file)
    /\ online_sql(db_file) # {} /\ online_json(data_file) # {}

\* str.lower() of a username.
lower(u) == IF u = "Zed" THEN "zed" ELSE u

\* Position of a lower-case username in alphabetical order.
alphabetical(w) == CASE w = "amy" -> 1 [] w = "bob" -> 2 [] w = "zed" -> 3

SortedCaseInsensitively(seq) ==
    \A i, j \in 1..Len(seq) :
      i < j => alphabetical(lower(seq[i])) < alphabetical(lower(seq[j]))

\* C8 - the listing for a viewer v holds exactly the users whose online
\* flag is true, except v, sorted case-insensitively by username.
C8_ListingSorted ==
    \A v \in Names :
      /\ \A online_users \in get_online_users_sql(db_file) :
           LET listing == online_listing(online_users, v)
           IN /\ Range(listing) = online_sql(db_file) \ {v}
              /\ SortedCaseInsensitively(listing)
      /\ LET listing == online_listing(get_online_users_json(load_data(data_file)), v)
         IN /\ Range(listing) = online_json(data_file) \ {v}
            /\ SortedCaseInsensitively(listing)

\* The send_message calls made so far that the filter keeps, in call order.
SentDirect(a, b) ==
    SelectSeq(sent_log, LAMBDA m : m.is_group = 0
                                   /\ {m.sender, m.receiver} = {a, b})

SentToGroup(g) ==
    SelectSeq(sent_log, LAMBDA m : m.is_group = 1 /\ m.receiver = g)

\* C3 - get_conversation(a, b, is_group=0) is exactly the direct messages
\* between a and b in send order, get_conversation(_, g, is_group=1) exactly
\* the group messages to g in send order, also when g is a username.
C3_HistoriesPartitioned ==
    \A a \in Senders \cup Receivers, b \in Senders \cup Receivers :
      LET direct == SentDirect(a, b)
          group == SentToGroup(b)
          direct_rows == [i \in 1..Len(direct) |->
              <<direct[i].sender, direct[i].receiver, direct[i].msg, direct[i].time>>]
          group_rows == [i \in 1..Len(group) |->
              <<group[i].sender, group[i].msg, group[i].time>>]
      IN /\ get_conversation_sql(db_file, a, b, 0) = direct_rows
         /\ get_conversation_json(load_data(data_file), a, b, 0) = direct_rows
         /\ get_conversation_sql(db_file, a, b, 1) = group_rows
         /\ get_conversation_json(load_data(data_file), a, b, 1) = group_rows

C3_Witness ==
    /\ Len(sent_log) = 3
    /\ sent_log[1].is_group = 0 /\ sent_log[1].sender = "bob"
    /\ sent_log[1].receiver = "amy"
    /\ sent_log[2].is_group = 1 /\ sent_log[2].sender = "bob"
    /\ sent_log[2].receiver = "amy"
    /\ sent_log[3].is_group = 0 /\ sent_log[3].sender = "amy"
    /\ sent_log[3].receiver = "bob"
    /\ sent_log[1].time = sent_log[3].time
    /\ Len(get_conversation_sql(db_file, "amy", "bob", 0)) = 2
    /\ Len(get_conversation_json(load_data(data_file), "bob", "amy", 1)) = 1

groupnames_sql(db) == {g.group_name : g \in db.groups}

groupnames_json(data) == {data.groups[i].key : i \in 1..Len(data.groups)}

\* How many times x occurs in a sequence.
Occurrences(seq, x) == Cardinality({i \in 1..Len(seq) : seq[i] = x})

\* C4 - add_member(g, u) fails only when g does not exist; adding a member
\* again reports success and u stays a member of g exactly once, listed
\* once by get_user_groups(u).
C4_AddMemberIdempotent ==
    /\ last.op = "add_member" =>
         /\ last.ret_sql <=> last.group_name \in groupnames_sql(db_file)
         /\ last.ret_json <=> last.group_name \in groupnames_json(data_file)
    /\ \A u \in Members, g \in GroupNames :
         /\ \A groups \in get_user_groups_sql(db_file, u) : Occurrences(groups, g) <= 1
         /\ Occurrences(get_user_groups_json(load_data(data_file), u), g) <= 1

\* The users recorded as members of a group.
members_sql(db, group_name) ==
    {gm.username : gm \in {x \in db.group_members :
        \E g \in db.groups : g.group_name = group_name /\ g.id = x.group_id}}

members_json(data, group_name) ==
    UNION {Range(data.groups[i].members) :
             i \in {j \in 1..Len(data.groups) : data.groups[j].key = group_name}}

\* C5 - create_group(g, c) fails when g exists; otherwise that call alone
\* creates g with members exactly {c}, and get_user_groups(c) contains g.
C5_CreateGroupStep ==
    last'.op = "create_group" =>
      LET g == last'.group_name
          c == last'.username
      IN /\ IF g \in groupnames_sql(db_file)
            THEN last'.ret_sql = FALSE /\ db_file' = db_file
            ELSE /\ last'.ret_sql = TRUE
                 /\ members_sql(db_file', g) = {c}
                 /\ \A groups \in get_user_groups_sql(db_file', c) : g \in Range(groups)
         /\ IF g \in groupnames_json(data_file)
            THEN last'.ret_json = FALSE /\ data_file' = data_file
            ELSE /\ last'.ret_json = TRUE
                 /\ members_json(data_file', g) = {c}
                 /\ g \in Range(get_user_groups_json(load_data(data_file'), c))

C5_CreateGroupAlone == [][C5_CreateGroupStep]_vars

\* C9 - the same calls on both backends return the same results, and the
\* online users, each user's groups (with multiplicity) and the direct and
\* group histories agree after every call.
C9_BackendsAgree ==
    /\ last.ret_sql = last.ret_json
    /\ online_sql(db_file) = online_json(data_file)
    /\ \A u \in Names \cup Members, g \in GroupNames :
         \A groups \in get_user_groups_sql(db_file, u) :
           Occurrences(groups, g) =
             Occurrences(get_user_groups_json(load_data(data_file), u), g)
    /\ \A a \in Senders \cup Receivers, b \in Senders \cup Receivers,
          is_group \in {0, 1} :
         get_conversation_sql(db_file, a, b, is_group) =
           get_conversation_json(load_data(data_file), a, b, is_group)

\* C7 - with sessions running concurrently no append is lost: every
\* completed send_message is in the message log, and every completed
\* signup, group creation and online-flag update is still in the store.
C7_NoLostUpdate ==
    /\ Cardinality(db_file.messages) = done.sends_sql
    /\ Len(data_file.messages) = done.sends_json
    /\ done.signups \subseteq usernames_json(data_file)
    /\ done.groups \subseteq groupnames_json(data_file)
    /\ (\A s \in Sessions : pending[s] = Idle) =>
         done.logged_in = online_json(data_file)

\* C10 - when a session logs out, its user is no longer listed as online
\* in the backend in which the session's login succeeded.
C10_LogoutClearsPresence ==
    last.op = "logout_button" =>
      IF last.backend = "SQLite"
      THEN \A online_users \in get_online_users_sql(db_file) :
             last.username \notin Range(online_users)
      ELSE last.username \notin Range(get_online_users_json(load_data(data_file)))

====
